---------------------------- MODULE Spec2Model ----------------------------
(***************************************************************************)
(* BusStopAlert (script.js): a browser page that geolocates the user,      *)
(* lets them pick a bus station and polls the position every               *)
(* TRACKING_INTERVAL ms, alerting once on each entry into the              *)
(* ALERT_DISTANCE zone around the station.                                 *)
(*                                                                         *)
(* Numbers are fixed point.  Coordinates are in 1e-4 degrees, angles in    *)
(* micro-radians, trigonometric values in millionths, distances in metres  *)
(* (the code's kilometres times 1000).  Every arithmetic helper is an odd  *)
(* or even function of its argument exactly as the IEEE operations of the  *)
(* code are, and TLC stops with an overflow error, never a wrong value,    *)
(* when two points are more than about 5 degrees apart.                    *)
(***************************************************************************)
EXTENDS Integers, Sequences, FiniteSets, TLC

(***************************************************************************)
(* Arithmetic helpers standing for the JavaScript Math operations.         *)
(***************************************************************************)
Abs(x) ==
    IF x < 0 THEN -x ELSE x

Sgn(x) ==
    IF x < 0 THEN -1 ELSE 1

\* a * b / 1e6 for non-negative fixed-point a, b, by three-digit limbs so
\* that no intermediate product leaves 31 bits.
MulFix(a, b) ==
    LET ah == a \div 1000
        al == a % 1000
        bh == b \div 1000
        bl == b % 1000
    IN  ah * bh + (ah * bl + al * bh) \div 1000 + (al * bl) \div 1000000

\* y / x in millionths, for 0 <= y < 2^31 / 1000 and 0 < x <= 1e6 * 2.
DivFix(y, x) ==
    LET n == y * 1000
    IN  (n \div x) * 1000 + ((n % x) * 1000) \div x

RECURSIVE IsqrtIter(_, _, _)
IsqrtIter(n, lo, hi) ==
    IF lo >= hi THEN lo
    ELSE LET mid == (lo + hi + 1) \div 2
         IN  IF mid * mid <= n THEN IsqrtIter(n, mid, hi)
                               ELSE IsqrtIter(n, lo, mid - 1)

\* Math.sqrt on a non-negative integer: the floor of the root.
Isqrt(n) ==
    IsqrtIter(n, 0, 46340)

\* Math.sin, x in micro-radians, result in millionths (Taylor to x^9).
Sin(x) ==
    LET m  == Abs(x)
        x2 == MulFix(m, m)
        t3 == MulFix(m, x2) \div 6
        t5 == MulFix(t3, x2) \div 20
        t7 == MulFix(t5, x2) \div 42
        t9 == MulFix(t7, x2) \div 72
    IN  Sgn(x) * (m - t3 + t5 - t7 + t9)

\* Math.cos, x in micro-radians, result in millionths (Taylor to x^8).
Cos(x) ==
    LET m  == Abs(x)
        x2 == MulFix(m, m)
        c2 == x2 \div 2
        c4 == MulFix(c2, x2) \div 12
        c6 == MulFix(c4, x2) \div 30
        c8 == MulFix(c6, x2) \div 56
    IN  1000000 - c2 + c4 - c6 + c8

\* Math.atan2(y, x) for 0 <= y <= x, in micro-radians (Taylor to t^5 of
\* t = y / x); the haversine of two points less than a quarter of the globe
\* apart has y <= x.
Atan2(y, x) ==
    LET t  == DivFix(y, x)
        t2 == MulFix(t, t)
        t3 == MulFix(t, t2)
        t5 == MulFix(t3, t2)
    IN  t - t3 \div 3 + t5 \div 5

\* x / 2, odd in x as the IEEE division is.
Half(x) ==
    Sgn(x) * (Abs(x) \div 2)

(***************************************************************************)
(* Program constants.                                                      *)
(***************************************************************************)
ALERT_DISTANCE == 5

R == 6371

\* Convert degrees to radians: degrees * (Math.PI / 180).  The argument is
\* in 1e-4 degrees and the result in micro-radians, so the factor is
\* 1.745329.
toRad(degrees) ==
    Sgn(degrees) * MulFix(Abs(degrees), 1745329)

\* calculateDistance with the cosine of the first latitude taken twice.
calculateDistanceOneLatitude(lat1, lon1, lat2, lon2) ==
    LET dLat == toRad(lat2 - lat1)
        dLon == toRad(lon2 - lon1)
        sLat == Sin(Half(dLat))
        sLon == Sin(Half(dLon))
        a    == sLat * sLat
                + MulFix(MulFix(Cos(toRad(lat1)), Cos(toRad(lat1))), sLon * sLon)
        ra   == Isqrt(a)
        rb   == Isqrt(100000000 - a \div 10000) * 100
        c    == 2 * Atan2(ra, rb)
    IN  (R * c) \div 1000

\* Haversine distance, in metres.
calculateDistance(lat1, lon1, lat2, lon2) ==
    LET dLat == toRad(lat2 - lat1)
        dLon == toRad(lon2 - lon1)
        sLat == Sin(Half(dLat))
        sLon == Sin(Half(dLon))
        \* a in units of 1e-12
        a    == sLat * sLat
                + MulFix(MulFix(Cos(toRad(lat1)), Cos(toRad(lat2))), sLon * sLon)
        \* Math.sqrt(a) and Math.sqrt(1 - a) in millionths
        ra   == Isqrt(a)
        rb   == Isqrt(100000000 - a \div 10000) * 100
        c    == 2 * Atan2(ra, rb)
    IN  (R * c) \div 1000

(***************************************************************************)
(* Values.                                                                 *)
(***************************************************************************)
\* JavaScript null (userLocation, selectedStation before they are set).
null ==
    [null |-> TRUE]

\* trackingInterval = null; timer ids are positive.
NoTimer == 0

\* parseFloat on the decimal strings of the geocoder, in 1e-4 degrees.
parseFloat(s) ==
    CASE s = "32.0853" -> 320853
      [] s = "32.0855" -> 320855
      [] s = "32.1623" -> 321623
      [] s = "32.1625" -> 321625
      [] s = "34.7818" -> 347818
      [] s = "34.7950" -> 347950

\* Raw geocoder results (Nominatim): display_name is held as its
\* comma-separated parts, split(',')[0] is the first of them.
StopA ==
    [display_name |-> <<"Central Bus Station", "Tel Aviv">>,
     type |-> "bus_station", class |-> "amenity",
     lat |-> "32.0853", lon |-> "34.7818"]

\* The same stop returned by another query, some 20 m away.
StopA2 ==
    [display_name |-> <<"Central Bus Station", "Tel Aviv-Yafo">>,
     type |-> "bus_station", class |-> "amenity",
     lat |-> "32.0855", lon |-> "34.7818"]

StopB ==
    [display_name |-> <<"Marina", "Herzliya">>,
     type |-> "bus_stop", class |-> "highway",
     lat |-> "32.1623", lon |-> "34.7950"]

\* A result with no transit tag, next to StopB.
Place ==
    [display_name |-> <<"Arena Mall", "Herzliya">>,
     type |-> "mall", class |-> "shop",
     lat |-> "32.1625", lon |-> "34.7950"]

\* An element of a response that is no place: it has neither display_name
\* nor coordinates (the geocoder's JSON is not checked by the code).
Broken ==
    [error |-> "Unable to geocode"]

\* Positions the geolocation service may report: one 1.6 km from StopA,
\* one 0.5 km from StopB and Place; each is more than 5 km from the others.
Positions ==
    { [lat |-> 321000, lng |-> 347818, accuracy |-> 20],
      [lat |-> 321600, lng |-> 347900, accuracy |-> 35] }

\* GeolocationPositionError codes: PERMISSION_DENIED, POSITION_UNAVAILABLE,
\* TIMEOUT.
ErrorCodes ==
    {1, 2, 3}

\* Contents of the station input when the search button is clicked.
Queries ==
    {"", "central"}

Ok(results) ==
    [kind |-> "ok", results |-> results]

NotOk ==
    [kind |-> "notok", results |-> <<>>]

Throw ==
    [kind |-> "throw", results |-> <<>>]

\* Transport outcomes of the four geocoder requests of one search.
OutcomeVectors ==
    { <<Ok(<<StopA, Place>>), Ok(<<StopA2, StopB>>), Throw, NotOk>>,
      <<NotOk, Throw, Ok(<<>>), Ok(<<Place>>)>>,
      <<Throw, Throw, Throw, Throw>> }

(***************************************************************************)
(* Bounds of the model.                                                    *)
(***************************************************************************)
\* Interval timers alive, or about to be created, at once.
MaxTimers == 2

\* Geolocation requests in flight at once (interval 5 s, timeout 10 s).
MaxInFlight == 2

\* Raw results listed by the responses of one search.
MaxRaw == 2

Min(a, b) ==
    IF a < b THEN a ELSE b

VARIABLES
    userLocation,      \* null or [lat, lng, accuracy]
    selectedStation,   \* null or [name, address, lat, lng]
    trackingInterval,  \* NoTimer or the id setInterval returned
    isTracking,
    hasAlerted,
    timers,            \* ids of the live interval timers of the page
    geolocation,       \* whether navigator.geolocation exists
    requests,          \* getCurrentPosition calls in flight, by kind
    status,            \* history: what the last step passed to showStatus
    startBtnShown,     \* start button displayed (the stop button is not)
    searching,         \* searchBtn.disabled
    suggestions,       \* the items of suggestions-list while it is shown
    fx,                \* history: what the last step called, or threw
    stopped,           \* history: stopTracking ran, startTracking not since
    session,           \* history: the session and its last applied update
    playPromise        \* a promise of alertSound.play() is pending

vars ==
    <<userLocation, selectedStation, trackingInterval, isTracking, hasAlerted,
      timers, geolocation, requests, status, startBtnShown, searching,
      suggestions, fx, stopped, session, playPromise>>

Status(message, n, type) ==
    [message |-> message, n |-> n, type |-> type]

NoStatus ==
    Status("", 0, "")

\* A request is late once stopTracking has run while it was in flight.
RequestKinds ==
    {[origin |-> "load", late |-> FALSE]}
        \cup [origin : {"start", "tick"}, late : BOOLEAN]

Request(origin) ==
    [origin |-> origin, late |-> FALSE]

InFlight ==
    requests[[origin |-> "load", late |-> FALSE]]
        + requests[[origin |-> "start", late |-> FALSE]]
        + requests[[origin |-> "start", late |-> TRUE]]
        + requests[[origin |-> "tick", late |-> FALSE]]
        + requests[[origin |-> "tick", late |-> TRUE]]

\* History of the session: whether one is running (startTracking resumed
\* and stopTracking has not run since) and where its last applied update
\* was: "none" before the first, then "in" or "out" of the alert zone;
\* and whether an update applied during it fired the alert.
NoSession ==
    [active |-> FALSE, last |-> "none", alerted |-> FALSE]

NoRequests ==
    [k \in RequestKinds |-> 0]

\* The page after DOMContentLoaded: the handler has initialised the map and
\* the sound and has called getUserLocation() once; the controls are in the
\* layout stopTracking leaves.
Init ==
    /\ userLocation = null
    /\ selectedStation = null
    /\ trackingInterval = NoTimer
    /\ isTracking = FALSE
    /\ hasAlerted = FALSE
    /\ timers = {}
    /\ geolocation \in BOOLEAN
    /\ requests = IF geolocation
                  THEN [NoRequests EXCEPT ![Request("load")] = 1]
                  ELSE NoRequests
    /\ status = NoStatus
    /\ startBtnShown = TRUE
    /\ searching = FALSE
    /\ suggestions = <<>>
    /\ fx = {}
    /\ stopped = FALSE
    /\ session = NoSession
    /\ playPromise = FALSE

(***************************************************************************)
(* Station search (searchBusStation, displaySuggestions, selectStation).    *)
(***************************************************************************)
\* text.toLowerCase().includes(keyword), for the texts the geocoder returns
\* here and the keywords of the filter.
Includes(text, keyword) ==
    <<text, keyword>> \in
        { <<"bus_station", "station">>, <<"bus_stop", "bus_stop">>,
          <<"highway", "highway">>,
          <<"Central Bus Station", "bus">>,
          <<"Central Bus Station", "station">> }

\* The filter of searchBusStation: a bus stop, a station or public transport.
isTransit(result) ==
    \/ Includes(result.type, "bus_stop")
    \/ Includes(result.type, "station")
    \/ Includes(result.class, "highway")
    \/ Includes(result.class, "public_transport")
    \/ \E i \in 1..Len(result.display_name) :
          \/ Includes(result.display_name[i], "תחנ")
          \/ Includes(result.display_name[i], "bus")
          \/ Includes(result.display_name[i], "station")

\* allResults after the four requests: the lists of the ok responses, in
\* order; a response that is not ok or a fetch that throws adds nothing.
RECURSIVE collectResults(_, _)
collectResults(outcomes, i) ==
    IF i > Len(outcomes) THEN <<>>
    ELSE (IF outcomes[i].kind = "ok" THEN outcomes[i].results ELSE <<>>)
             \o collectResults(outcomes, i + 1)

\* parseFloat of a missing lat or lon is NaN, the distance is then NaN and
\* `distance < 0.05` is false.
hasCoordinates(result) ==
    {"lat", "lon"} \subseteq DOMAIN result

\* The de-duplication, had its threshold been 0.005 km.
RECURSIVE removeDuplicatesWithin5(_, _)
removeDuplicatesWithin5(allResults, uniqueResults) ==
    IF allResults = <<>> THEN uniqueResults
    ELSE LET result == Head(allResults)
             isDuplicate ==
                 \E i \in 1..Len(uniqueResults) :
                   /\ hasCoordinates(result)
                   /\ hasCoordinates(uniqueResults[i])
                   /\ calculateDistance(parseFloat(result.lat),
                                       parseFloat(result.lon),
                                       parseFloat(uniqueResults[i].lat),
                                       parseFloat(uniqueResults[i].lon)) < 5
         IN  removeDuplicatesWithin5(Tail(allResults),
                                     IF isDuplicate THEN uniqueResults
                                     ELSE Append(uniqueResults, result))

\* Remove duplicates based on coordinates (within 50 metres).
RECURSIVE removeDuplicates(_, _)
removeDuplicates(allResults, uniqueResults) ==
    IF allResults = <<>> THEN uniqueResults
    ELSE LET result == Head(allResults)
             isDuplicate ==
                 \E i \in 1..Len(uniqueResults) :
                   /\ hasCoordinates(result)
                   /\ hasCoordinates(uniqueResults[i])
                   /\ calculateDistance(parseFloat(result.lat),
                                       parseFloat(result.lon),
                                       parseFloat(uniqueResults[i].lat),
                                       parseFloat(uniqueResults[i].lon)) < 50
         IN  removeDuplicates(Tail(allResults),
                              IF isDuplicate THEN uniqueResults
                              ELSE Append(uniqueResults, result))

\* Array.prototype.slice(0, n).
slice(list, n) ==
    SubSeq(list, 1, Min(Len(list), n))

\* The filter callback throws a TypeError on a result without display_name
\* (`result.display_name.toLowerCase()`).
filterThrows(uniqueResults) ==
    \E i \in 1..Len(uniqueResults) :
        "display_name" \notin DOMAIN uniqueResults[i]

\* searchBusStation after the de-duplication, when the filter does not
\* throw: the filtered results, or all of them when the filter leaves none.
searchFiltered(uniqueResults) ==
    LET filteredResults == slice(SelectSeq(uniqueResults, isTransit), 10)
    IN  IF Len(filteredResults) = 0 /\ Len(uniqueResults) > 0
        THEN [settled |-> "resolved",
              results |-> slice(uniqueResults, 10),
              status  |-> Status("found results",
                                 Min(Len(uniqueResults), 10), "success")]
        ELSE IF Len(filteredResults) = 0
        THEN [settled |-> "resolved",
              results |-> <<>>,
              status  |-> Status("no stations found", 0, "warning")]
        ELSE [settled |-> "resolved",
              results |-> filteredResults,
              status  |-> Status("found stations", Len(filteredResults),
                                 "success")]

\* searchBusStation, had it no outer try/catch: the TypeError of the filter
\* rejects its promise.
searchBusStationNoCatch(outcomes) ==
    LET allResults      == collectResults(outcomes, 1)
        uniqueResults   == removeDuplicates(allResults, <<>>)
    IN  IF filterThrows(uniqueResults)
        THEN [settled |-> "rejected",
              results |-> <<>>,
              status  |-> NoStatus]
        ELSE searchFiltered(uniqueResults)

\* How the promise of searchBusStation settles, the list it resolves to
\* and the status it leaves.
searchBusStation(outcomes) ==
    LET allResults      == collectResults(outcomes, 1)
        uniqueResults   == removeDuplicates(allResults, <<>>)
    IN  IF filterThrows(uniqueResults)
        THEN [settled |-> "resolved",
              results |-> <<>>,
              status  |-> Status("search error", 0, "error")]
        ELSE searchFiltered(uniqueResults)

\* The station selectStation stores for a geocoder result.
stationOf(station) ==
    [name    |-> station.display_name[1],
     address |-> station.display_name,
     lat     |-> parseFloat(station.lat),
     lng     |-> parseFloat(station.lon)]

\* Click on the search button (or Enter): an empty query is refused, any
\* other starts searchBusStation and disables the button until it returns.
SearchClick ==
    /\ ~searching
    /\ \E query \in Queries :
          IF query = ""
          THEN /\ status' = Status("enter a station name", 0, "error")
               /\ UNCHANGED searching
          ELSE /\ status' = Status("searching", 0, "info")
               /\ searching' = TRUE
    /\ fx' = {}
    /\ UNCHANGED <<userLocation, selectedStation, trackingInterval, isTracking,
                   hasAlerted, timers, geolocation, requests, startBtnShown,
                   suggestions, stopped, session, playPromise>>

\* What a search can return, over the transport outcomes of the model.
SearchOutcomes ==
    {searchBusStation(outcomes) : outcomes \in OutcomeVectors}

\* The click handler after `await searchBusStation(query)`: it shows what
\* was found and enables the button again; had the promise rejected, the
\* handler would end there and leave the button disabled.
searchReturned(found) ==
    /\ status' = found.status
    /\ IF found.settled = "rejected"
       THEN UNCHANGED <<suggestions, searching>>
       ELSE /\ suggestions' = found.results
            /\ searching' = FALSE

\* searchBusStation returns and displaySuggestions shows what it found.
SearchDone ==
    /\ searching
    /\ \E found \in SearchOutcomes : searchReturned(found)
    /\ fx' = {}
    /\ UNCHANGED <<userLocation, selectedStation, trackingInterval, isTracking,
                   hasAlerted, timers, geolocation, requests, startBtnShown,
                   stopped, session, playPromise>>

\* The search on its own, over every combination of transport outcomes of
\* the requests and every short list of raw results.
Kinds ==
    {"ok", "notok", "throw"}

\* The number of geocoder requests of one search.
Searches == 4

Raw ==
    {StopA, StopA2, StopB, Place, Broken}

\* The raw results of one search, in the order the responses list them.
RawLists ==
    UNION {[1..n -> Raw] : n \in 0..MaxRaw}

\* The outcomes of the requests, of the given kinds, whose ok responses
\* list `raw` between them: its first element in the first ok response, the
\* rest in the last one.
Responses(kinds, raw) ==
    LET oks   == {i \in 1..Searches : kinds[i] = "ok"}
        first == CHOOSE i \in oks : \A j \in oks : i <= j
        last  == CHOOSE i \in oks : \A j \in oks : j <= i
    IN  [i \in 1..Searches |->
            IF kinds[i] = "notok" THEN NotOk
            ELSE IF kinds[i] = "throw" THEN Throw
            ELSE IF first = last THEN Ok(raw)
            ELSE IF i = first THEN Ok(SubSeq(raw, 1, Min(1, Len(raw))))
            ELSE IF i = last THEN Ok(SubSeq(raw, 2, Len(raw)))
            ELSE Ok(<<>>)]

SearchVectors ==
    {Responses(kinds, raw) : kinds \in [1..Searches -> Kinds],
                             raw \in RawLists}

\* Each search of SearchVectors with what searchBusStation makes of it.
SearchTable ==
    {[outcomes      |-> outcomes,
      allResults    |-> collectResults(outcomes, 1),
      uniqueResults |-> removeDuplicates(collectResults(outcomes, 1), <<>>),
      found         |-> searchBusStation(outcomes)] :
        outcomes \in SearchVectors}

\* The searches of SearchTable, grouped by what searchBusStation returns.
SearchGroups ==
    {[found    |-> found,
      searches |-> {row : row \in {r \in SearchTable :
                                       r.found = found}}] :
        found \in {row.found : row \in SearchTable}}

SearchDoneWide ==
    /\ searching
    /\ \E group \in SearchGroups : searchReturned(group.found)
    /\ fx' = {}
    /\ UNCHANGED <<userLocation, selectedStation, trackingInterval, isTracking,
                   hasAlerted, timers, geolocation, requests, startBtnShown,
                   stopped, session, playPromise>>

\* selectStation, had it also re-armed the latch (hasAlerted = false).
SelectStationResets(i) ==
    /\ i \in 1..Len(suggestions)
    /\ selectedStation' = stationOf(suggestions[i])
    /\ status' = Status("station selected", 0, "success")
    /\ suggestions' = <<>>
    /\ hasAlerted' = FALSE
    /\ fx' = {}
    /\ UNCHANGED <<userLocation, trackingInterval, isTracking, timers,
                   geolocation, requests, startBtnShown, searching, stopped,
                   session, playPromise>>

\* Click on the i-th suggestion: selectStation(result), and the list hides.
SelectStation(i) ==
    /\ i \in 1..Len(suggestions)
    /\ selectedStation' = stationOf(suggestions[i])
    /\ status' = Status("station selected", 0, "success")
    /\ suggestions' = <<>>
    /\ fx' = {}
    /\ UNCHANGED <<userLocation, trackingInterval, isTracking, hasAlerted,
                   timers, geolocation, requests, startBtnShown, searching,
                   stopped, session, playPromise>>

\* A click outside the input group hides the suggestions.
ClickOutside ==
    /\ suggestions # <<>>
    /\ suggestions' = <<>>
    /\ fx' = {}
    /\ status' = NoStatus
    /\ UNCHANGED <<userLocation, selectedStation, trackingInterval, isTracking,
                   hasAlerted, timers, geolocation, requests, startBtnShown,
                   searching, stopped, session, playPromise>>

(***************************************************************************)
(* Location requests (getUserLocation) and the tracker.                     *)
(***************************************************************************)
Issue(k) ==
    [requests EXCEPT ![k] = @ + 1]

Settle(k) ==
    [requests EXCEPT ![k] = @ - 1]

\* The message getUserLocation rejects with for an error code.
errorMessage(code) ==
    CASE code = 1 -> "location permission is required"
      [] code = 2 -> "location information is unavailable"
      [] code = 3 -> "the location request timed out"
      [] OTHER    -> "the location cannot be determined"

\* setInterval: a positive id that no live timer of the page has.
newTimerId ==
    CHOOSE id \in 1..(Cardinality(timers) + 1) :
        id \notin timers /\ \A j \in 1..(id - 1) : j \in timers

\* The alert sound when playAlertSound runs: initAlertSound assigned it
\* before any listener was registered, so no update finds it null.
Sounds ==
    {"ready"}

\* Notification.permission when showBrowserNotification runs.
Permissions ==
    {"granted", "denied"}

\* playAlertSound(): without a sound it warns and returns; with one it
\* calls play(), whose promise settles later.
playAlertSound(sound) ==
    IF sound = "uninitialised"
    THEN [fx |-> {"playAlertSound", "console.warn"}, played |-> FALSE]
    ELSE [fx |-> {"playAlertSound", "play"}, played |-> TRUE]

\* showBrowserNotification(): a Notification only when permission is
\* granted.
showBrowserNotification(permission) ==
    IF permission = "granted"
    THEN {"showBrowserNotification", "Notification"}
    ELSE {"showBrowserNotification"}

\* The alert of updateDistanceDisplay: playAlertSound(), hasAlerted = true,
\* the status, showBrowserNotification().
alert(sound, permission) ==
    [hasAlerted |-> TRUE,
     status     |-> Status("you reached the alert zone", 0, "warning"),
     fx         |-> {"updateDistanceDisplay"} \cup playAlertSound(sound).fx
                        \cup showBrowserNotification(permission),
     played     |-> playAlertSound(sound).played]

\* updateDistanceDisplay outside the alert: nothing but the display.
noAlert(alerted) ==
    [hasAlerted |-> alerted,
     status     |-> NoStatus,
     fx         |-> {"updateDistanceDisplay"},
     played     |-> FALSE]

\* updateDistanceDisplay without the `if (!hasAlerted)` test: the alert is
\* level-triggered.
updateDistanceDisplayNoLatch(distance, alerted) ==
    IF distance <= ALERT_DISTANCE * 1000
    THEN {alert(sound, permission) :
              sound \in Sounds, permission \in Permissions}
    ELSE {noAlert(FALSE)}

\* updateDistanceDisplay(distance), from the point of view of the latch:
\* the values of hasAlerted it may leave, with the status it shows, the
\* callbacks it invokes and whether it called play(), given hasAlerted
\* before.
updateDistanceDisplay(distance, alerted) ==
    IF distance <= ALERT_DISTANCE * 1000
    THEN IF ~alerted
         THEN {alert(sound, permission) :
                   sound \in Sounds, permission \in Permissions}
         ELSE {noAlert(alerted)}
    ELSE {noAlert(FALSE)}

\* The stations a search of the model can offer.
Stations ==
    {stationOf(result) : result \in {StopA, StopA2, StopB, Place}}

\* Coordinates of a bounded set, as <<lat, lng>>: those of the positions
\* and stations above, and two towns a degree of latitude apart.
Coordinates ==
    {<<pos.lat, pos.lng>> : pos \in Positions}
        \cup {<<station.lat, station.lng>> : station \in Stations}
        \cup {<<317700, 352100>>, <<328000, 349900>>}

\* A position report at each of the coordinates.
Fixes ==
    {[lat |-> c[1], lng |-> c[2], accuracy |-> 20] : c \in Coordinates}

\* A selected station at each of the coordinates.
Landmarks ==
    {[name |-> "station", address |-> <<"station">>,
      lat |-> c[1], lng |-> c[2]] : c \in Coordinates}

\* calculateDistance between each two coordinates, computed once.
Distances ==
    {entry : entry \in
        {[from |-> ab[1], to |-> ab[2],
          distance |-> calculateDistance(ab[1][1], ab[1][2],
                                         ab[2][1], ab[2][2])] :
             ab \in Coordinates \X Coordinates}}

\* calculateDistance(userLocation.lat, userLocation.lng,
\* selectedStation.lat, selectedStation.lng) of the tracker.
distanceBetween(location, station) ==
    (CHOOSE entry \in Distances :
        /\ entry.from = <<location.lat, location.lng>>
        /\ entry.to = <<station.lat, station.lng>>).distance

\* History: the session after an applied update at `distance` that
\* called what `shown` lists.
sessionAfter(s, distance, shown) ==
    IF ~s.active THEN s
    ELSE [active  |-> TRUE,
          last    |-> IF distance <= ALERT_DISTANCE * 1000 THEN "in"
                      ELSE "out",
          alerted |-> s.alerted \/ "playAlertSound" \in shown.fx]

\* startTracking after `await getUserLocation()` resolved: the session
\* becomes active, the first distance is shown and the polling timer starts.
\* A missing location or station makes the distance computation throw a
\* TypeError, which the catch of startTracking reports.
startTrackingResumed(marks) ==
    /\ isTracking' = TRUE
    /\ startBtnShown' = FALSE
    /\ IF userLocation' = null \/ selectedStation = null
       THEN /\ status' = Status("TypeError", 0, "error")
            /\ fx' = marks \cup {"TypeError"}
            /\ session' = session
            /\ UNCHANGED <<hasAlerted, trackingInterval, timers,
                           playPromise>>
       ELSE \E distance \in {distanceBetween(userLocation', selectedStation)} :
            \E shown \in updateDistanceDisplay(distance, hasAlerted) :
            LET id       == newTimerId
                begun    == IF isTracking THEN session
                            ELSE [NoSession EXCEPT !.active = TRUE]
            IN  /\ hasAlerted' = shown.hasAlerted
                /\ playPromise' = (playPromise \/ shown.played)
                /\ trackingInterval' = id
                /\ timers' = timers \cup {id}
                /\ status' = Status("tracking started", 0, "success")
                /\ fx' = marks \cup {"calculateDistance"} \cup shown.fx
                /\ session' = sessionAfter(begun, distance, shown)

\* startTracking when `await getUserLocation()` rejected: the catch shows
\* the message.
startTrackingFailed(message) ==
    /\ status' = Status(message, 0, "error")
    /\ fx' = {}
    /\ UNCHANGED <<isTracking, startBtnShown, hasAlerted, trackingInterval,
                   timers, session, playPromise>>

\* The interval callback, had it computed the distance from the position
\* it saw before its await (a stale copy of userLocation).
trackingUpdatedStale(marks) ==
    /\ IF userLocation = null \/ selectedStation = null
       THEN /\ fx' = marks \cup {"TypeError", "console.error"}
            /\ status' = NoStatus
            /\ UNCHANGED <<hasAlerted, session, playPromise>>
       ELSE \E distance \in {distanceBetween(userLocation, selectedStation)} :
            \E shown \in updateDistanceDisplay(distance, hasAlerted) :
                /\ hasAlerted' = shown.hasAlerted
                /\ playPromise' = (playPromise \/ shown.played)
                /\ status' = shown.status
                /\ fx' = marks \cup {"calculateDistance"} \cup shown.fx
                /\ session' = sessionAfter(session, distance, shown)
    /\ UNCHANGED <<isTracking, startBtnShown, trackingInterval, timers>>

\* The interval callback after its `await getUserLocation()` resolved.
trackingUpdated(marks) ==
    /\ IF userLocation' = null \/ selectedStation = null
       THEN /\ fx' = marks \cup {"TypeError", "console.error"}
            /\ status' = NoStatus
            /\ UNCHANGED <<hasAlerted, session, playPromise>>
       ELSE \E distance \in {distanceBetween(userLocation', selectedStation)} :
            \E shown \in updateDistanceDisplay(distance, hasAlerted) :
                /\ hasAlerted' = shown.hasAlerted
                /\ playPromise' = (playPromise \/ shown.played)
                /\ status' = shown.status
                /\ fx' = marks \cup {"calculateDistance"} \cup shown.fx
                /\ session' = sessionAfter(session, distance, shown)
    /\ UNCHANGED <<isTracking, startBtnShown, trackingInterval, timers>>

\* The interval callback's catch, had it also ended the polling:
\* clearInterval(trackingInterval) and isTracking = false.
trackingUpdateFailedStops ==
    /\ status' = NoStatus
    /\ fx' = {"console.error"}
    /\ timers' = timers \ {trackingInterval}
    /\ trackingInterval' = NoTimer
    /\ isTracking' = FALSE
    /\ UNCHANGED <<startBtnShown, hasAlerted, session, playPromise>>

\* The interval callback when its `await getUserLocation()` rejected: the
\* catch logs the error.
trackingUpdateFailed ==
    /\ status' = NoStatus
    /\ fx' = {"console.error"}
    /\ UNCHANGED <<isTracking, startBtnShown, hasAlerted, trackingInterval,
                   timers, session, playPromise>>

\* getCurrentPosition calls its success callback with a position: it is
\* stored, the marker moves and the awaiting caller resumes.
LocationSuccess(k, pos) ==
    /\ requests[k] > 0
    /\ requests' = Settle(k)
    /\ userLocation' = [lat      |-> pos.lat,
                        lng      |-> pos.lng,
                        accuracy |-> pos.accuracy]
    /\ CASE k.origin = "load" ->
                /\ fx' = {"updateUserMarker"}
                /\ status' = NoStatus
                /\ UNCHANGED <<isTracking, startBtnShown, hasAlerted,
                               trackingInterval, timers, session,
                               playPromise>>
         [] k.origin = "start" -> startTrackingResumed({"updateUserMarker"})
         [] k.origin = "tick"  -> trackingUpdated({"updateUserMarker"})
    /\ UNCHANGED <<selectedStation, geolocation, searching, suggestions, stopped>>

\* getCurrentPosition calls its error callback: the promise rejects with
\* the message of the code and the awaiting caller's catch runs.
LocationError(k, code) ==
    /\ requests[k] > 0
    /\ requests' = Settle(k)
    /\ CASE k.origin = "load" ->
                /\ status' = NoStatus
                /\ fx' = {"console.log"}
                /\ UNCHANGED <<isTracking, startBtnShown, hasAlerted,
                               trackingInterval, timers, session,
                               playPromise>>
         [] k.origin = "start" -> startTrackingFailed(errorMessage(code))
         [] k.origin = "tick"  -> trackingUpdateFailed
    /\ UNCHANGED <<userLocation, selectedStation, geolocation, searching,
                   suggestions, stopped>>

\* startTracking up to its first await; `ready` is the outcome of the test
\* of its first line.
startTrackingCalled(ready) ==
    /\ startBtnShown
    /\ IF ~ready
       THEN /\ status' = Status("select a station first", 0, "error")
            /\ UNCHANGED requests
       ELSE IF ~geolocation
       THEN /\ status' = Status("the browser does not support location", 0,
                                "error")
            /\ UNCHANGED requests
       ELSE /\ InFlight < MaxInFlight
            /\ Cardinality(timers) + requests[Request("start")]
                   + requests[[origin |-> "start", late |-> TRUE]] < MaxTimers
            /\ requests' = Issue(Request("start"))
            /\ status' = NoStatus
    /\ stopped' = FALSE
    /\ fx' = {}
    /\ UNCHANGED <<userLocation, selectedStation, trackingInterval, isTracking,
                   hasAlerted, timers, geolocation, startBtnShown, searching,
                   suggestions, session, playPromise>>

\* startTracking without its `if (!selectedStation)` test.
StartTrackingUnchecked ==
    startTrackingCalled(TRUE)

\* startTracking testing the wrong variable: `if (!userLocation)`.
StartTrackingChecksLocation ==
    startTrackingCalled(userLocation # null)

\* Click on the start button: startTracking up to its first await.
StartTracking ==
    startTrackingCalled(selectedStation # null)

\* stopTracking, had it left the latch alone (no `hasAlerted = false`).
stopTrackingKeepsLatch(interval, live) ==
    [timers           |-> IF interval # NoTimer
                          THEN live \ {interval} ELSE live,
     trackingInterval |-> NoTimer,
     isTracking       |-> FALSE,
     hasAlerted       |-> hasAlerted,
     startBtnShown    |-> TRUE,
     status           |-> Status("tracking stopped", 0, "info")]

\* stopTracking() called with trackingInterval = interval while the timers
\* `live` exist: what it leaves in the variables it writes.
stopTracking(interval, live) ==
    [timers           |-> IF interval # NoTimer
                          THEN live \ {interval} ELSE live,
     trackingInterval |-> NoTimer,
     isTracking       |-> FALSE,
     hasAlerted       |-> FALSE,
     startBtnShown    |-> TRUE,
     status           |-> Status("tracking stopped", 0, "info")]

\* Click on the stop button: stopTracking.
StopTracking ==
    /\ ~startBtnShown
    /\ \E after \in {stopTracking(trackingInterval, timers)} :
          /\ timers' = after.timers
          /\ trackingInterval' = after.trackingInterval
          /\ isTracking' = after.isTracking
          /\ hasAlerted' = after.hasAlerted
          /\ startBtnShown' = after.startBtnShown
          /\ status' = after.status
    /\ requests' = [k \in RequestKinds |->
                       IF k.origin = "load" THEN requests[k]
                       ELSE IF k.late
                            THEN requests[k] + requests[Request(k.origin)]
                            ELSE 0]
    /\ stopped' = TRUE
    /\ session' = NoSession
    /\ fx' = {}
    /\ UNCHANGED <<userLocation, selectedStation, geolocation, searching,
                   suggestions, playPromise>>

\* The promise of alertSound.play() fulfils: the `then` logs.
PlayFulfilled ==
    /\ playPromise
    /\ playPromise' \in BOOLEAN
    /\ fx' = {"console.log"}
    /\ status' = NoStatus
    /\ UNCHANGED <<userLocation, selectedStation, trackingInterval, isTracking,
                   hasAlerted, timers, geolocation, requests, startBtnShown,
                   searching, suggestions, stopped, session>>

\* The `catch` of the play() promise, had it given up tracking:
\* clearInterval(trackingInterval) and isTracking = false.
PlayRejectedStops ==
    /\ playPromise
    /\ playPromise' \in BOOLEAN
    /\ fx' = {"console.warn"}
    /\ status' = Status("alert: you reached the station", 0, "warning")
    /\ timers' = timers \ {trackingInterval}
    /\ trackingInterval' = NoTimer
    /\ isTracking' = FALSE
    /\ UNCHANGED <<userLocation, selectedStation, hasAlerted, geolocation,
                   requests, startBtnShown, searching, suggestions, stopped,
                   session>>

\* The promise of alertSound.play() rejects: the `catch` warns and shows
\* the alert as a status.
PlayRejected ==
    /\ playPromise
    /\ playPromise' \in BOOLEAN
    /\ fx' = {"console.warn"}
    /\ status' = Status("alert: you reached the station", 0, "warning")
    /\ UNCHANGED <<userLocation, selectedStation, trackingInterval, isTracking,
                   hasAlerted, timers, geolocation, requests, startBtnShown,
                   searching, suggestions, stopped, session>>

\* The interval timer t fires: its callback calls getUserLocation().
Tick(t) ==
    /\ t \in timers
    /\ IF geolocation
       THEN /\ InFlight < MaxInFlight
            /\ requests' = Issue(Request("tick"))
            /\ fx' = {}
       ELSE /\ UNCHANGED requests
            /\ fx' = {"console.error"}
    /\ status' = NoStatus
    /\ UNCHANGED <<userLocation, selectedStation, trackingInterval, isTracking,
                   hasAlerted, timers, geolocation, startBtnShown, searching,
                   suggestions, stopped, session, playPromise>>

Next ==
    \/ \E k \in RequestKinds, pos \in Positions : LocationSuccess(k, pos)
    \/ \E k \in RequestKinds, code \in ErrorCodes : LocationError(k, code)
    \/ StartTracking
    \/ StopTracking
    \/ \E t \in timers : Tick(t)
    \/ SearchClick
    \/ SearchDone
    \/ \E i \in 1..Len(suggestions) : SelectStation(i)
    \/ ClickOutside
    \/ PlayFulfilled
    \/ PlayRejected

Spec == Init /\ [][Next]_vars

\* The page used for searching and selecting only.
SearchNext ==
    \/ SearchClick
    \/ SearchDoneWide
    \/ \E i \in 1..Len(suggestions) : SelectStation(i)
    \/ ClickOutside

SearchSpec == Init /\ [][SearchNext]_vars

\* The idle page once the location request of the load has succeeded at
\* one of the coordinates and a station at one of them has been selected.
DistanceInit ==
    /\ userLocation \in Fixes
    /\ selectedStation \in Landmarks
    /\ trackingInterval = NoTimer
    /\ isTracking = FALSE
    /\ hasAlerted = FALSE
    /\ timers = {}
    /\ geolocation = TRUE
    /\ requests = NoRequests
    /\ status = NoStatus
    /\ startBtnShown = TRUE
    /\ searching = FALSE
    /\ suggestions = <<>>
    /\ fx = {}
    /\ stopped = FALSE
    /\ session = NoSession
    /\ playPromise = FALSE

\* The tracker alone, its positions drawn from all the coordinates.
DistanceNext ==
    \/ StartTracking
    \/ \E k \in RequestKinds, pos \in Fixes : LocationSuccess(k, pos)
    \/ \E t \in timers : Tick(t)
    \/ StopTracking

\* The page with its timers firing and its location requests succeeding:
\* a live interval timer fires again and again, and getCurrentPosition
\* ends by calling the success callback.
FairSpec ==
    /\ Spec
    /\ WF_vars(\E t \in timers : Tick(t))
    /\ WF_vars(\E k \in RequestKinds, pos \in Positions :
                   LocationSuccess(k, pos))

DistanceSpec == DistanceInit /\ [][DistanceNext]_vars

(***************************************************************************)
(* Properties.                                                             *)
(***************************************************************************)
AlertFx ==
    {"playAlertSound", "showBrowserNotification"}

UpdateFx ==
    AlertFx \cup {"updateDistanceDisplay", "updateUserMarker"}

\* The request kinds whose success feeds the tracker.
TrackerKinds ==
    {k \in RequestKinds : k.origin \in {"start", "tick"}}

\* The positions and stations within the alert distance of each other.
ZonePairs ==
    {zone : zone \in {ps \in Positions \X Stations :
        calculateDistance(ps[1].lat, ps[1].lng, ps[2].lat, ps[2].lng)
            <= ALERT_DISTANCE * 1000}}

\* Whether pos is within the alert distance of the selected station.
InZone(pos) ==
    <<pos, selectedStation>> \in ZonePairs

\* C1: the success of a location request that was in flight when
\* stopTracking ran calls neither updateUserMarker nor updateDistanceDisplay,
\* fires no sound and no notification, and leaves hasAlerted as it was.
C1_LateResponseDiscarded ==
    [][\A k \in RequestKinds, pos \in Positions :
          (k.late /\ LocationSuccess(k, pos))
              => (fx' \cap UpdateFx = {} /\ hasAlerted' = hasAlerted)]_vars

\* C2: an applied position update within the alert distance leaves hasAlerted
\* true, and plays the sound and shows the notification exactly when
\* hasAlerted was false before it.
C2_Debounce ==
    [][\A k \in TrackerKinds, pos \in Positions :
          (selectedStation # null /\ LocationSuccess(k, pos) /\ InZone(pos))
              => /\ hasAlerted'
                 /\ "updateDistanceDisplay" \in fx'
                 /\ IF hasAlerted THEN fx' \cap AlertFx = {}
                                  ELSE AlertFx \subseteq fx']_vars

\* An update inside the zone, directly after another one inside the zone of
\* the same session, found hasAlerted true and fired nothing.
C2_Witness ==
    /\ session.active
    /\ session.last = "in"
    /\ hasAlerted
    /\ "updateDistanceDisplay" \in fx
    /\ fx \cap AlertFx = {}

\* C3: within a session an applied update fires the alert exactly when it
\* enters the zone (it is within the alert distance and is the first update
\* of the session or follows an update beyond the distance), so the alerts
\* of a session are as many as its zone entries; and an update beyond the
\* distance leaves hasAlerted false.
C3_OncePerZoneEntry ==
    [][\A k \in TrackerKinds, pos \in Positions :
          (LocationSuccess(k, pos) /\ session'.active)
              => /\ (AlertFx \subseteq fx')
                        <=> (session'.last = "in" /\ session.last # "in")
                 /\ (session'.last = "out") => ~hasAlerted']_vars

\* C4: once stopTracking has run, no interval timer of the tracker fires
\* until startTracking is called again.
C4_StopHaltsTimer ==
    [][stopped => ~(\E t \in timers : Tick(t))]_vars

\* C5: startTracking called with no station selected shows an error status
\* and nothing else: isTracking stays false and trackingInterval null,
\* hasAlerted and userLocation keep their values, and no location request
\* is issued.
C5_StartWithoutStation ==
    [][(selectedStation = null /\ StartTracking)
          => /\ status'.type = "error"
             /\ isTracking' = FALSE
             /\ trackingInterval' = NoTimer
             /\ UNCHANGED <<isTracking, trackingInterval, hasAlerted,
                            userLocation, selectedStation, requests,
                            timers>>]_vars

\* startTracking has just refused to start for want of a station.
C5_Witness ==
    /\ selectedStation = null
    /\ status = Status("select a station first", 0, "error")
    /\ ~isTracking
    /\ trackingInterval = NoTimer

\* C6: a tick whose location request fails, whatever the error code, clears
\* no timer and leaves isTracking as it is; after it every live timer can
\* fire again; and a tick whose request succeeds is fed through
\* updateDistanceDisplay.
C6_LoopResilience ==
    /\ [][\A k \in TrackerKinds :
             /\ \A code \in ErrorCodes :
                  (k.origin = "tick" /\ LocationError(k, code))
                      => UNCHANGED <<timers, trackingInterval, isTracking>>
             /\ \A pos \in Positions :
                  (k.origin = "tick" /\ LocationSuccess(k, pos))
                      => "updateDistanceDisplay" \in fx']_vars
    /\ [](fx = {"console.error"} => \A t \in timers : ENABLED Tick(t))

\* A tick of a running session has just failed: the session is still
\* tracking and its timer is still live.
C6_Witness ==
    /\ fx = {"console.error"}
    /\ isTracking
    /\ ~stopped
    /\ trackingInterval # NoTimer
    /\ trackingInterval \in timers

\* C7: after stopTracking has run, isTracking is false until startTracking
\* is called again.
C7_InactiveAfterStop ==
    stopped => ~isTracking

\* C8: the tracker computes a distance, updates the display or fires an
\* alert only in a step that leaves both userLocation and selectedStation
\* present, and it never reaches the distance computation with one of them
\* absent.
C8_UnarmedNeverAlerts ==
    /\ "TypeError" \notin fx
    /\ (fx \cap (AlertFx \cup {"calculateDistance", "updateDistanceDisplay"})
           # {}) => (userLocation # null /\ selectedStation # null)

\* An alert has just fired, with a location and a station.
C8_Witness ==
    /\ AlertFx \subseteq fx
    /\ userLocation # null
    /\ selectedStation # null

\* C9: hasAlerted turns from true to false only in stopTracking or in an
\* applied update beyond the alert distance; selectStation, a failed
\* location request, startTracking and a search leave it as it is.
C9_LatchResetPolicy ==
    [][/\ (hasAlerted /\ ~hasAlerted')
            => \/ StopTracking
               \/ \E k \in TrackerKinds, pos \in Positions :
                     /\ selectedStation # null
                     /\ LocationSuccess(k, pos)
                     /\ ~InZone(pos)
       /\ (\/ \E i \in 1..Len(suggestions) : SelectStation(i)
           \/ \E k \in RequestKinds, code \in ErrorCodes :
                 LocationError(k, code)
           \/ StartTracking
           \/ SearchClick
           \/ SearchDone)
            => hasAlerted' = hasAlerted]_vars

\* A station has just been selected in a running session whose alert had
\* fired: the latch is still set.
C9_Witness ==
    /\ status = Status("station selected", 0, "success")
    /\ isTracking
    /\ hasAlerted

\* C10: a failed location request leaves userLocation, selectedStation and
\* hasAlerted as they were; when it is the initial request of startTracking,
\* an error status is shown, no timer is created and isTracking is false.
C10_FailureKeepsLastGood ==
    [][\A k \in RequestKinds, code \in ErrorCodes :
          LocationError(k, code)
              => /\ UNCHANGED <<userLocation, selectedStation, hasAlerted>>
                 /\ (k.origin = "start")
                        => /\ status'.type = "error"
                           /\ UNCHANGED <<timers, trackingInterval>>
                           /\ isTracking' = FALSE]_vars

\* The location requests of the tracker that are in flight.
TrackerInFlight ==
    requests[[origin |-> "start", late |-> FALSE]]
        + requests[[origin |-> "start", late |-> TRUE]]
        + requests[[origin |-> "tick", late |-> FALSE]]
        + requests[[origin |-> "tick", late |-> TRUE]]

\* C11: when a response of the tracker resolves while another of its
\* requests is in flight, userLocation becomes the position of that
\* response, the latch is fed the distance from that position (hasAlerted
\* ends true exactly when the position is within the alert distance),
\* nothing is queued (the response is consumed and no request is added),
\* and within a session the alert fires only on a zone entry.
C11_LastWriteWins ==
    [][\A k \in TrackerKinds, pos \in Positions :
          (TrackerInFlight >= 2 /\ selectedStation # null
              /\ LocationSuccess(k, pos))
              => /\ userLocation' = [lat |-> pos.lat, lng |-> pos.lng,
                                     accuracy |-> pos.accuracy]
                 /\ hasAlerted' <=> InZone(pos)
                 /\ requests' = Settle(k)
                 /\ (session'.active /\ AlertFx \subseteq fx')
                       => session.last # "in"]_vars

\* A response of a running session has just been applied while another
\* request of the tracker is still in flight.
C11_Witness ==
    /\ session.active
    /\ "updateDistanceDisplay" \in fx
    /\ TrackerInFlight >= 1
    /\ userLocation # null

\* C12: stopTracking leaves isTracking false, hasAlerted false and
\* trackingInterval null, and selectedStation and userLocation as they
\* were; stopTracking called again in the state it left would write the
\* values that are already there.
C12_StopReturnsToIdle ==
    [][StopTracking
          => /\ isTracking' = FALSE
             /\ hasAlerted' = FALSE
             /\ trackingInterval' = NoTimer
             /\ UNCHANGED <<selectedStation, userLocation>>
             /\ stopTracking(trackingInterval', timers')
                   = [timers           |-> timers',
                      trackingInterval |-> trackingInterval',
                      isTracking       |-> isTracking',
                      hasAlerted       |-> hasAlerted',
                      startBtnShown    |-> startBtnShown',
                      status           |-> status']]_vars

\* stopTracking has just run; the location and the station are still
\* there.
C12_Witness ==
    /\ status = Status("tracking stopped", 0, "info")
    /\ stopped
    /\ ~isTracking
    /\ ~hasAlerted
    /\ trackingInterval = NoTimer
    /\ userLocation # null
    /\ selectedStation # null

\* Whether no request of a search yields a result: each fails (response
\* not ok, or fetch throws) or lists nothing.
YieldsNothing(outcomes) ==
    \A i \in 1..Searches :
        outcomes[i].kind # "ok" \/ outcomes[i].results = <<>>

\* C13: for every combination of transport outcomes searchBusStation
\* resolves, to a list that is shown, and never rejects; when every request
\* fails or yields nothing the list is empty and the status is a warning or
\* an error.
C13_SearchNeverRejects ==
    [][\A group \in SearchGroups :
          (searching /\ searchReturned(group.found))
              => /\ group.found.settled = "resolved"
                 /\ ~searching'
                 /\ suggestions' \in Seq(Raw)
                 /\ \A search \in group.searches :
                       YieldsNothing(search.outcomes)
                           => /\ suggestions' = <<>>
                              /\ status'.type \in {"warning", "error"}]_vars

\* A search whose responses held an element that is no place has ended in
\* the catch: empty list, error status, button enabled again.
C13_Witness ==
    /\ status = Status("search error", 0, "error")
    /\ suggestions = <<>>
    /\ ~searching

\* Whether a raw result passes the transit filter of searchBusStation.
Tagged(result) ==
    "display_name" \in DOMAIN result /\ isTransit(result)

\* C14: when a raw result of the search is transit-tagged, every candidate
\* searchBusStation returns is transit-tagged (untagged results are
\* returned only when no raw result is tagged), and it never returns more
\* than 10 candidates.
C14_TransitPreference ==
    [][\A group \in SearchGroups :
          (searching /\ searchReturned(group.found))
              => /\ Len(suggestions') <= 10
                 /\ \A search \in group.searches :
                       LET raw == search.allResults
                       IN  (\E i \in 1..Len(raw) : Tagged(raw[i]))
                               => \A j \in 1..Len(suggestions') :
                                      Tagged(suggestions'[j])]_vars

\* The pairs of raw results less than 50 m apart.
ClosePairs ==
    {pair : pair \in {ab \in Raw \X Raw :
        /\ hasCoordinates(ab[1])
        /\ hasCoordinates(ab[2])
        /\ calculateDistance(parseFloat(ab[1].lat), parseFloat(ab[1].lon),
                             parseFloat(ab[2].lat), parseFloat(ab[2].lon))
              < 50}}

\* Whether the i-th raw result of a search was kept by the de-duplication
\* pass: it is among uniqueResults and, having coordinates, is not a
\* repetition of an earlier raw result.
Kept(search, i) ==
    /\ \E j \in 1..Len(search.uniqueResults) :
          search.uniqueResults[j] = search.allResults[i]
    /\ hasCoordinates(search.allResults[i])
          => \A j \in 1..(i - 1) :
                search.allResults[j] # search.allResults[i]

\* C15: no two candidates searchBusStation returns are less than 50 m
\* apart, and every raw result dropped as a duplicate is less than 50 m from
\* an earlier raw result that the de-duplication kept.
C15_Deduplication ==
    [][\A group \in SearchGroups :
          (searching /\ searchReturned(group.found))
              => /\ \A i, j \in 1..Len(suggestions') :
                       i < j => <<suggestions'[i], suggestions'[j]>>
                                    \notin ClosePairs
                 /\ \A search \in group.searches :
                       \A i \in 1..Len(search.allResults) :
                           ~Kept(search, i)
                               => \E j \in 1..(i - 1) :
                                     /\ Kept(search, j)
                                     /\ <<search.allResults[i],
                                          search.allResults[j]>>
                                            \in ClosePairs]_vars

\* A search has returned the one station that a search of two results
\* within 50 m of each other returns.
C15_Witness ==
    /\ ~searching
    /\ Len(suggestions) = 1
    /\ \E search \in SearchTable :
           /\ Len(search.allResults) = 2
           /\ Len(search.uniqueResults) = 1
           /\ search.found.results = suggestions
           /\ search.found.status = status

\* C16: an update that fires the alert sets hasAlerted, throws nothing and
\* leaves the timer and isTracking alone (a first update in startTracking
\* goes on to create its timer), whether or not a Notification was shown;
\* a rejected play() promise only warns and shows a warning status; and
\* playAlertSound without a sound warns and returns without calling play().
C16_BestEffortAlert ==
    /\ [][/\ \A k \in TrackerKinds, pos \in Positions :
              (LocationSuccess(k, pos) /\ "playAlertSound" \in fx')
                  => /\ hasAlerted'
                     /\ fx' \cap {"TypeError", "console.error"} = {}
                     /\ status'.type \in {"warning", "success"}
                     /\ "play" \in fx' /\ playPromise'
                     /\ k.origin = "tick"
                           => UNCHANGED <<timers, trackingInterval,
                                          isTracking>>
                     /\ k.origin = "start"
                           => /\ isTracking'
                              /\ trackingInterval' \in timers'
                              /\ timers \subseteq timers'
          /\ PlayRejected
                  => /\ status'.type = "warning"
                     /\ fx' = {"console.warn"}
                     /\ UNCHANGED <<userLocation, selectedStation,
                                    trackingInterval, isTracking, hasAlerted,
                                    timers, geolocation, requests,
                                    startBtnShown, searching, suggestions,
                                    stopped, session>>]_vars
    /\ [](/\ playAlertSound("uninitialised").fx
                  = {"playAlertSound", "console.warn"}
           /\ ~playAlertSound("uninitialised").played)

\* A play() promise rejected while the session it alerted in goes on, its
\* timer live and the latch set.
C16_Witness ==
    /\ fx = {"console.warn"}
    /\ status.type = "warning"
    /\ isTracking /\ hasAlerted
    /\ trackingInterval \in timers

\* C17: with the user at a and the station at b, any two coordinates of
\* the bounded set, calculateDistance(a, a) = 0, calculateDistance(b, b) = 0
\* and calculateDistance(a, b) = calculateDistance(b, a).
C17_DistanceSymmetric ==
    (userLocation # null /\ selectedStation # null)
        => LET lat1 == userLocation.lat
               lon1 == userLocation.lng
               lat2 == selectedStation.lat
               lon2 == selectedStation.lng
           IN  /\ calculateDistance(lat1, lon1, lat1, lon1) = 0
               /\ calculateDistance(lat2, lon2, lat2, lon2) = 0
               /\ calculateDistance(lat1, lon1, lat2, lon2)
                      = calculateDistance(lat2, lon2, lat1, lon1)

\* An update has measured two coordinates that differ in latitude and in
\* longitude, more than the alert distance apart.
C17_Witness ==
    /\ "calculateDistance" \in fx
    /\ userLocation.lat # selectedStation.lat
    /\ userLocation.lng # selectedStation.lng
    /\ calculateDistance(userLocation.lat, userLocation.lng,
                         selectedStation.lat, selectedStation.lng)
           > ALERT_DISTANCE * 1000

\* C18: in every reachable state at most one interval timer is live, and
\* trackingInterval is its id.
C18_AtMostOneTimer ==
    /\ Cardinality(timers) <= 1
    /\ timers # {} => timers = {trackingInterval}

\* C19: in every reachable state hasAlerted = true implies
\* isTracking = true.
C19_LatchClearWhenIdle ==
    hasAlerted => isTracking

\* C20: a session whose last applied update was inside the alert zone
\* eventually has fired the alert, unless it ends or an update outside the
\* zone is applied to it.
C20_InZoneSessionAlerts ==
    (session.active /\ session.last = "in")
        ~> (~session.active \/ session.last = "out" \/ session.alerted)

=========================================================================
